---- MODULE Spec2Model ----
(***************************************************************************)
(* The master of task_scheduler_os (src/master.py): the task store, the    *)
(* pending queue, the worker registry, the makespan timers and the         *)
(* background monitor.  Every action is one critical section (`with lock`) *)
(* of a request handler or of the monitor thread.                          *)
(***************************************************************************)
EXTENDS Integers, Sequences, FiniteSets, TLC

\* ------------------------------------------------------------------ bounds
\* Number of tasks submitted in a run.
MaxTasks == 2
\* Number of rounds the monitor makes in a run.
MaxRounds == 3
\* Number of tasks submitted in a run of the lease scenario.
MaxLeased == 1
\* Number of tasks submitted in a run of the batch scenario.
MaxBatch == 3
\* Number of tasks submitted in a run of the intake scenario.
MaxIntake == 2
\* Number of tasks submitted in a run of the requeue scenario.
MaxRequeued == 3
\* Number of tasks submitted in a run of the grant scenario.
MaxGranted == 1
\* Number of tasks submitted in a run of the dashboard scenario.
MaxViewed == 1
\* Number of tasks submitted in a run of the crash scenario.
MaxCrashed == 1
MaxReported == 1

\* ------------------------------------------------------- program constants
\* time.sleep(5) of the monitor; the clock is observed at this granularity.
MonitorInterval == 5
\* `now - info["last_seen"] > 10`
HeartbeatTimeout == 10
\* data.get("priority", 50)
DefaultPriority == 50
\* leaseTimeout of the specification (section 4.5); master.py has no such
\* constant, the value is the heartbeat timeout's.
LeaseTimeout == 10

\* Python's None for a time, a worker id and a result.
NoTime == -1
NoWorker == "None"
NoResult == "None"
NoType == "None"
NoPayload == "None"
\* A worker that holds no task.
NoTask == 0
\* time.time() when the master starts.
StartTime == 1

\* The worker ids get_task is called with (worker.py: "worker-<hex>").
WorkerIds == {"w1", "w2"}
\* The workers whose register_worker and heartbeat requests reach the master;
\* the other worker polls get_task and is never heard of otherwise (worker.py
\* goes on to poll when its registration fails).
Registrants == {"w1"}
\* The "priority" of a submit request: absent (<<>>) or given (<<p>>).
PriorityInputs == {<<>>, <<1>>}
\* The "type" of a submit request: absent or given.
TypeInputs == {<<>>, <<"sum">>}
\* The "payload" of a submit request: absent or given.
PayloadInputs == {<<>>, <<"p1">>}
\* The JSON bodies of a submit request.
SubmitInputs ==
    [type : TypeInputs, payload : PayloadInputs, priority : PriorityInputs]
\* The bodies submit_tasks.py sends: a type and a payload, always.
ClientInputs == {d \in SubmitInputs : d.type # <<>> /\ d.payload # <<>>}
\* The "status" worker.py sends with an update_task request.
WorkerStatuses == {"done", "failed"}
\* The "status" of an update_task request: the two values worker.py sends and a
\* string that names no state.
StatusInputs == WorkerStatuses \cup {"cancelled"}
\* The "result" of an update_task request.
ResultInputs == {"r1"}

VARIABLES
    tasks,            \* task id -> task record          (master.py: tasks)
    task_queue,       \* sequence of task ids            (master.py: task_queue)
    workers,          \* sequence of [id, last_seen], in dict order (master.py: workers)
    first_task_start, \* makespan timer
    last_task_end,    \* makespan timer
    nextId,           \* number of ids uuid4() has handed out
    clock,            \* time.time(), in steps of the monitor's period
    get_task_ret,     \* worker id -> the `task` a get_task handler holds between
                      \* its critical section and its return (<<>>: none)
    worker_proc,      \* worker id -> where the worker.py process with that id
                      \* is, and the task it holds
    status_call       \* the status() handler: its position, the locals it has
                      \* read, and the snapshots of the states the master went
                      \* through since the call's first statement that match
                      \* what the call has read

\* The master's data.
store == <<tasks, task_queue, workers, first_task_start, last_task_end, nextId,
           clock>>
\* The positions of the handlers that are followed statement by statement, and
\* of the worker processes.
calls == <<get_task_ret, worker_proc, status_call>>

vars == <<store, calls>>

\* ----------------------------------------------------------------- helpers
Range(s) == {s[i] : i \in DOMAIN s}

\* worker_id in workers
IsRegistered(w) == \E i \in DOMAIN workers : workers[i].id = w

\* workers[w]["last_seen"]
LastSeen(w) == workers[CHOOSE i \in DOMAIN workers : workers[i].id = w].last_seen

\* The keys of the tasks dict, in insertion order (ids are handed out in order).
TaskIds == SelectSeq([i \in 1..nextId |-> i], LAMBDA i : i \in DOMAIN tasks)

\* data.get("priority", 50)
PriorityOf(d) == IF d = <<>> THEN DefaultPriority ELSE d[1]

\* data.get("type"), data.get("payload")
TypeOf(d) == IF d = <<>> THEN NoType ELSE d[1]
PayloadOf(d) == IF d = <<>> THEN NoPayload ELSE d[1]

\* The task dict submit_task builds.
NewTask(d) ==
    [type |-> TypeOf(d.type), payload |-> PayloadOf(d.payload),
     priority |-> PriorityOf(d.priority), status |-> "queued", result |-> NoResult,
     worker |-> NoWorker, start_time |-> NoTime, end_time |-> NoTime]

\* A submit that appends and does not sort.
Unsorted(q, ts) == q

\* A sort that loses the element appended last.
SortLosesLast(q, ts) == SubSeq(q, 1, Len(q) - 1)

\* A sort that puts an element before the elements of its own priority.
RECURSIVE SortNewestFirst(_, _)
SortNewestFirst(q, ts) ==
    IF q = <<>> THEN <<>>
    ELSE LET n    == Len(q)
             init == SortNewestFirst(SubSeq(q, 1, n - 1), ts)
             x    == q[n]
             k    == Cardinality({i \in DOMAIN init :
                                   ts[init[i]].priority < ts[x].priority})
         IN  SubSeq(init, 1, k) \o <<x>> \o SubSeq(init, k + 1, Len(init))

\* list.sort(key=lambda t: t["priority"]): a stable sort, lower value first;
\* ts gives the task record of every id in q.
RECURSIVE SortByPriority(_, _)
SortByPriority(q, ts) ==
    IF q = <<>> THEN <<>>
    ELSE LET n    == Len(q)
             init == SortByPriority(SubSeq(q, 1, n - 1), ts)
             x    == q[n]
             k    == Cardinality({i \in DOMAIN init :
                                   ts[init[i]].priority <= ts[x].priority})
         IN  SubSeq(init, 1, k) \o <<x>> \o SubSeq(init, k + 1, Len(init))

\* A get_task that reads the head of the queue and leaves it there.
PopKeepsHead(q) == q

\* A get_task that puts the task it grants back at the end of the queue.
PopToBack(q) == Tail(q) \o <<Head(q)>>

\* task_queue.pop(0): the queue that is left.
Pop(q) == Tail(q)

\* A get_task that does not record the worker.
GrantedToNobody(t, w, now) ==
    [t EXCEPT !.status = "running", !.start_time = now]

\* What get_task writes into the task it pops.
Granted(t, w, now) ==
    [t EXCEPT !.status = "running", !.worker = w, !.start_time = now]

\* What update_task writes into the task it finds.
Reported(t, status, result, now) ==
    [t EXCEPT !.result = result, !.status = status,
              !.end_time = IF status = "done" THEN now ELSE @]

\* A monitor that declares a worker dead at the timeout, not after it.
IsDeadAtTimeout(info, now) == now - info.last_seen >= HeartbeatTimeout

\* The monitor's test of one registry entry.
IsDead(info, now) == now - info.last_seen > HeartbeatTimeout

\* The monitor's test of one task against one dead worker.
IsOrphan(t, wid) == t.worker = wid /\ t.status = "running"

\* What the monitor writes into a task it reassigns.
Requeued(t) == [t EXCEPT !.status = "queued", !.worker = NoWorker]

\* get_summary(): counts by status.
CountStatus(s) == Cardinality({i \in DOMAIN tasks : tasks[i].status = s})
get_summary ==
    [total |-> Cardinality(DOMAIN tasks), queued |-> CountStatus("queued"),
     running |-> CountStatus("running"), done |-> CountStatus("done"),
     failed |-> CountStatus("failed")]

\* done_times of status(): the tasks it averages over.
DoneTimed ==
    {i \in DOMAIN tasks : /\ tasks[i].status = "done"
                          /\ tasks[i].start_time # NoTime
                          /\ tasks[i].end_time # NoTime}

\* sum(done_times) over the tasks in S.
RECURSIVE SumTimes(_)
SumTimes(S) ==
    IF S = {} THEN 0
    ELSE LET i == CHOOSE i \in S : TRUE
         IN  (tasks[i].end_time - tasks[i].start_time) + SumTimes(S \ {i})

RECURSIVE GCD(_, _)
GCD(a, b) == IF b = 0 THEN a ELSE GCD(b, a % b)

\* avg_time of status(): sum(done_times) / len(done_times), or 0; the quotient
\* is kept as <<numerator, denominator>> in lowest terms.
AvgTime ==
    IF DoneTimed = {} THEN <<0, 1>>
    ELSE LET n == SumTimes(DoneTimed)
             k == Cardinality(DoneTimed)
             g == GCD(n, k)
         IN  <<n \div g, k \div g>>

\* makespan of status(), from the summary it holds and the timers as they are.
Makespan(summary) ==
    IF summary.running = 0 /\ summary.queued = 0 /\ summary.done > 0
    THEN IF first_task_start # NoTime /\ last_task_end # NoTime
         THEN last_task_end - first_task_start ELSE 0
    ELSE IF first_task_start # NoTime THEN clock - first_task_start ELSE 0

\* What status() would show if it read everything in the present state.
Snapshot ==
    [summary |-> get_summary, avg_time |-> AvgTime,
     makespan |-> Makespan(get_summary), live_workers |-> Len(workers)]

\* No status() call under way: no local is bound.
NoStatusCall == [pc |-> "idle"]

\* The snapshot x shows what the call c has read so far.
Matches(c, x) ==
    /\ x.summary = c.summary
    /\ c.pc \in {"avg_time", "makespan", "done"} => x.avg_time = c.avg_time
    /\ c.pc \in {"makespan", "done"} => x.makespan = c.makespan
    /\ c.pc = "done" => x.live_workers = c.live_workers

\* The call c after a read: the snapshots that match what it has read now.
AfterRead(c) == [c EXCEPT !.matching = {x \in @ : Matches(c, x)}]

\* -------------------------------------------------------------------- Init
Init ==
    /\ tasks = <<>>
    /\ task_queue = <<>>
    /\ workers = <<>>
    /\ first_task_start = NoTime
    /\ last_task_end = NoTime
    /\ nextId = 0
    /\ clock = StartTime
    /\ get_task_ret = [w \in WorkerIds |-> <<>>]
    /\ status_call = NoStatusCall
    /\ worker_proc = [w \in WorkerIds |-> [pc |-> "start", task |-> NoTask]]

\* ----------------------------------------------------------------- actions
\* POST /submit
submit_task(d) ==
    /\ LET id == nextId + 1 IN
        /\ nextId' = id
        /\ first_task_start' = IF DOMAIN tasks = {} THEN NoTime ELSE first_task_start
        /\ last_task_end' = IF DOMAIN tasks = {} THEN NoTime ELSE last_task_end
        /\ tasks' = tasks @@ (id :> NewTask(d))
        /\ task_queue' = SortByPriority(Append(task_queue, id), tasks')
    /\ UNCHANGED <<workers, clock>>

\* GET /get_task?worker_id=w
get_task(w) ==
    /\ \/ /\ task_queue = <<>>
          /\ UNCHANGED <<tasks, task_queue, first_task_start>>
       \/ /\ task_queue # <<>>
          /\ LET id == Head(task_queue) IN
              /\ task_queue' = Pop(task_queue)
              /\ tasks' = [tasks EXCEPT ![id] = Granted(@, w, clock)]
              /\ first_task_start' =
                    IF first_task_start = NoTime THEN clock ELSE first_task_start
    /\ UNCHANGED <<workers, last_task_end, nextId, clock>>

\* The task store update_task leaves: `if task_id in tasks: ...`.
AfterUpdate(id, status, result) ==
    IF id \in DOMAIN tasks
    THEN [tasks EXCEPT ![id] = Reported(@, status, result, clock)]
    ELSE tasks

\* An update_task that stamps last_task_end whatever the id.
EndStampedBlind(id, status) == IF status = "done" THEN clock ELSE last_task_end

\* The last_task_end update_task leaves.
EndAfterUpdate(id, status) ==
    IF id \in DOMAIN tasks /\ status = "done" THEN clock ELSE last_task_end

\* get_task up to the end of its critical section: what get_task(w) does, and
\* the handler is left holding the task it popped (`return` inside the lock
\* when the queue is empty).
get_task_locked(w) ==
    /\ get_task_ret[w] = <<>>
    /\ get_task(w)
    /\ get_task_ret' = [get_task_ret EXCEPT
                           ![w] = IF task_queue = <<>> THEN <<>> ELSE <<Head(task_queue)>>]
    /\ UNCHANGED <<worker_proc, status_call>>

\* The `task` dict the handler of w holds: the record in the store.
HeldTask(w) == tasks[get_task_ret[w][1]]

\* `return jsonify({"task": task})`, after the lock is released: the response
\* is HeldTask(w) as it is now.
get_task_return(w) ==
    /\ get_task_ret[w] # <<>>
    /\ get_task_ret' = [get_task_ret EXCEPT ![w] = <<>>]
    /\ UNCHANGED <<store, worker_proc, status_call>>

\* POST /update_task
update_task(id, status, result) ==
    /\ tasks' = AfterUpdate(id, status, result)
    /\ last_task_end' = EndAfterUpdate(id, status)
    /\ UNCHANGED <<task_queue, workers, first_task_start, nextId, clock>>

\* workers[w] = {"id": w, "last_seen": now}: a known key keeps its place in the
\* dict, a new key goes last.
SetWorker(w, now) ==
    IF IsRegistered(w)
    THEN [i \in DOMAIN workers |->
            IF workers[i].id = w THEN [id |-> w, last_seen |-> now] ELSE workers[i]]
    ELSE Append(workers, [id |-> w, last_seen |-> now])

\* POST /register_worker
register_worker(w) ==
    /\ workers' = SetWorker(w, clock)
    /\ UNCHANGED <<tasks, task_queue, first_task_start, last_task_end, nextId, clock>>

\* The registry heartbeat leaves: `if worker_id in workers: ... = time.time()`.
AfterHeartbeat(w) == IF IsRegistered(w) THEN SetWorker(w, clock) ELSE workers

\* POST /heartbeat
heartbeat(w) ==
    /\ workers' = AfterHeartbeat(w)
    /\ UNCHANGED <<tasks, task_queue, first_task_start, last_task_end, nextId, clock>>

\* The `dead` list of a tick: the dead workers, in dict order.
DeadWorkers(now) ==
    LET d == SelectSeq(workers, LAMBDA info : IsDead(info, now))
    IN  [i \in DOMAIN d |-> d[i].id]

\* The ids the tick appends to task_queue: for each dead worker in turn, its
\* running tasks in dict order.
RECURSIVE Orphans(_)
Orphans(dead) ==
    IF dead = <<>> THEN <<>>
    ELSE SelectSeq(TaskIds, LAMBDA i : IsOrphan(tasks[i], Head(dead)))
         \o Orphans(Tail(dead))

\* One round of monitor_workers(): time.sleep(5), now = time.time(), then the
\* body under the lock.  The monitor's sleep is what moves the clock.
monitor_workers ==
    /\ clock' = clock + MonitorInterval
    /\ LET now  == clock'
           dead == DeadWorkers(now)
           back == Orphans(dead)
       IN  /\ tasks' = [i \in DOMAIN tasks |->
                          IF i \in Range(back) THEN Requeued(tasks[i]) ELSE tasks[i]]
           /\ task_queue' = task_queue \o back
           /\ workers' = SelectSeq(workers, LAMBDA info : info.id \notin Range(dead))
    /\ UNCHANGED <<first_task_start, last_task_end, nextId>>

\* A time read two monitor periods later on a clock set back by as much; a
\* time that leaves the window the clock covers reads as its start.
SetBack(t) ==
    IF t = NoTime THEN NoTime
    ELSE IF t - 2 * MonitorInterval < StartTime THEN StartTime
    ELSE t - 2 * MonitorInterval

\* A round of monitor_workers() at the end of the window the clock covers: the
\* round of monitor_workers, after which the origin of time is moved two
\* periods on, so the clock and every stored time read two periods less.  Only
\* last_seen is compared with the clock, and a last_seen that survives a round
\* is at most HeartbeatTimeout old, so it stays inside the window.
monitor_workers_wrapped ==
    /\ clock' = clock + MonitorInterval - 2 * MonitorInterval
    /\ LET now  == clock + MonitorInterval
           dead == DeadWorkers(now)
           back == Orphans(dead)
           kept == SelectSeq(workers, LAMBDA info : info.id \notin Range(dead))
       IN  /\ tasks' = [i \in DOMAIN tasks |->
                          LET t == IF i \in Range(back) THEN Requeued(tasks[i])
                                   ELSE tasks[i]
                          IN  [t EXCEPT !.start_time = SetBack(@),
                                        !.end_time = SetBack(@)]]
           /\ task_queue' = task_queue \o back
           /\ workers' = [i \in DOMAIN kept |->
                            [kept[i] EXCEPT !.last_seen = SetBack(@)]]
    /\ first_task_start' = SetBack(first_task_start)
    /\ last_task_end' = SetBack(last_task_end)
    /\ UNCHANGED nextId

\* POST /reset
reset_system ==
    /\ tasks' = <<>>
    /\ task_queue' = <<>>
    /\ first_task_start' = NoTime
    /\ last_task_end' = NoTime
    /\ UNCHANGED <<workers, nextId, clock>>

\* worker.py, "Register worker": the first thing a worker does.
worker_register(w) ==
    /\ worker_proc[w].pc = "start"
    /\ register_worker(w)
    /\ worker_proc' = [worker_proc EXCEPT ![w].pc = "poll"]
    /\ UNCHANGED <<get_task_ret, status_call>>

\* worker.py, heartbeat(): the thread started after the registration; it sends
\* a heartbeat whenever it gets to run, as long as the process lives.
worker_heartbeat(w) ==
    /\ worker_proc[w].pc \in {"poll", "work"}
    /\ heartbeat(w)
    /\ UNCHANGED calls

\* worker.py, main loop: ask the master for a task; with a task the worker
\* goes on to execute it, with none it polls again.
worker_poll(w) ==
    /\ worker_proc[w].pc = "poll"
    /\ get_task(w)
    /\ worker_proc' =
          IF task_queue = <<>> THEN worker_proc
          ELSE [worker_proc EXCEPT ![w] = [pc |-> "work", task |-> Head(task_queue)]]
    /\ UNCHANGED <<get_task_ret, status_call>>

\* worker.py, main loop: the task has run; report done, or failed when it raised.
worker_report(w, status, result) ==
    /\ worker_proc[w].pc = "work"
    /\ update_task(worker_proc[w].task, status, result)
    /\ worker_proc' = [worker_proc EXCEPT ![w] = [pc |-> "poll", task |-> NoTask]]
    /\ UNCHANGED <<get_task_ret, status_call>>

\* tasks.py, TASKS: the task types that have a function (one stands for all).
TASKS == {"sum"}

\* str(e), the error text a failed report carries.
ErrorText == "err"

\* tasks.py, run_task: how a run can end. An unknown type raises ValueError; a
\* payload of None raises in the function's payload.get; otherwise the function
\* returns, or raises on data it cannot handle.
run_task(type, payload) ==
    IF type \notin TASKS THEN {"raised"}
    ELSE IF payload = NoPayload THEN {"raised"}
    ELSE {"returned", "raised"}

\* worker.py, `result = run_task(task["type"], task["payload"])` in the inner
\* try: on a return the worker goes on to the done report, on an exception to
\* the except branch. type and payload never change in the store, so they are
\* read from it.
worker_run(w, outcome) ==
    /\ worker_proc[w].pc = "work"
    /\ outcome \in run_task(tasks[worker_proc[w].task].type,
                            tasks[worker_proc[w].task].payload)
    /\ worker_proc' = [worker_proc EXCEPT ![w] =
          [pc |-> IF outcome = "returned" THEN "post_done" ELSE "post_failed",
           task |-> worker_proc[w].task, ran |-> outcome, reports |-> <<>>]]
    /\ UNCHANGED <<store, get_task_ret, status_call>>

\* worker.py, `requests.post(.../update_task, status "done", timeout=5)`, still
\* in the inner try. The request reaches the master or not (delivered); the
\* response comes back in time or requests.post raises (answered), and then the
\* same except branch runs as for a failed computation.
worker_report_done(w, result, delivered, answered) ==
    /\ worker_proc[w].pc = "post_done"
    /\ answered => delivered
    /\ IF delivered THEN update_task(worker_proc[w].task, "done", result)
                    ELSE UNCHANGED store
    /\ worker_proc' = [worker_proc EXCEPT
          ![w].pc = IF answered THEN "poll" ELSE "post_failed",
          ![w].reports = Append(@, "done")]
    /\ UNCHANGED <<get_task_ret, status_call>>

\* worker.py, the inner except branch: `requests.post(.../update_task, result
\* str(e), status "failed", timeout=5)`. When this request raises, the outer
\* except prints, sleeps, and the loop goes on: the worker polls again either way.
worker_report_failed(w, delivered) ==
    /\ worker_proc[w].pc = "post_failed"
    /\ IF delivered THEN update_task(worker_proc[w].task, "failed", ErrorText)
                    ELSE UNCHANGED store
    /\ worker_proc' = [worker_proc EXCEPT
          ![w].pc = "poll",
          ![w].reports = Append(@, "failed")]
    /\ UNCHANGED <<get_task_ret, status_call>>

\* The worker process dies, for good, wherever it is.
worker_crash(w) ==
    /\ worker_proc[w].pc # "crashed"
    /\ worker_proc' = [worker_proc EXCEPT ![w] = [pc |-> "crashed", task |-> NoTask]]
    /\ UNCHANGED <<store, get_task_ret, status_call>>

\* The monitor thread's next round: it never stops.
monitor_round ==
    /\ IF clock < StartTime + (MaxRounds + 1) * MonitorInterval
       THEN monitor_workers
       ELSE monitor_workers_wrapped
    /\ UNCHANGED calls

\* `summary = get_summary()`: the first statement of status(), under the lock.
status_summary ==
    /\ status_call.pc = "idle"
    /\ status_call' = [pc |-> "summary", summary |-> get_summary,
                       matching |-> {Snapshot}]
    /\ UNCHANGED <<store, get_task_ret, worker_proc>>

\* done_times and avg_time: tasks is read with no lock held.
status_avg_time ==
    /\ status_call.pc = "summary"
    /\ status_call' =
          AfterRead([pc |-> "avg_time", summary |-> status_call.summary,
                     avg_time |-> AvgTime, matching |-> status_call.matching])
    /\ UNCHANGED <<store, get_task_ret, worker_proc>>

\* makespan: the timers and time.time() are read with no lock held.
status_makespan ==
    /\ status_call.pc = "avg_time"
    /\ status_call' =
          AfterRead([pc |-> "makespan", summary |-> status_call.summary,
                     avg_time |-> status_call.avg_time,
                     makespan |-> Makespan(status_call.summary),
                     matching |-> status_call.matching])
    /\ UNCHANGED <<store, get_task_ret, worker_proc>>

\* `live_workers = len(workers)`, under the lock: the last thing status() reads.
status_workers ==
    /\ status_call.pc = "makespan"
    /\ status_call' =
          AfterRead([pc |-> "done", summary |-> status_call.summary,
                     avg_time |-> status_call.avg_time,
                     makespan |-> status_call.makespan,
                     live_workers |-> Len(workers),
                     matching |-> status_call.matching])
    /\ UNCHANGED <<store, get_task_ret, worker_proc>>

\* `return html`
status_return ==
    /\ status_call.pc = "done"
    /\ status_call' = NoStatusCall
    /\ UNCHANGED <<store, get_task_ret, worker_proc>>

\* A step of another handler or of the monitor while status() is between its
\* first and its last read: the snapshot of the state it leaves is kept if it
\* matches what the call has read.
Observed ==
    /\ status_call' =
          IF status_call.pc \in {"idle", "done"} \/ ~Matches(status_call, Snapshot')
          THEN status_call
          ELSE [status_call EXCEPT !.matching = @ \cup {Snapshot'}]
    /\ UNCHANGED <<get_task_ret, worker_proc>>

\* ---------------------------------------------------------- specifications
\* The master with its clients, its workers and its monitor, in a run of at
\* most n tasks.
NextOf(n) ==
    \/ nextId < n /\ UNCHANGED calls /\ \E d \in ClientInputs : submit_task(d)
    \/ UNCHANGED calls /\ \E w \in WorkerIds : get_task(w)
    \/ UNCHANGED calls /\ \E id \in 1..n, s \in StatusInputs, r \in ResultInputs :
                              update_task(id, s, r)
    \/ UNCHANGED calls /\ \E w \in Registrants : register_worker(w)
    \/ UNCHANGED calls /\ \E w \in Registrants : heartbeat(w)
    \/ clock < StartTime + MaxRounds * MonitorInterval /\ UNCHANGED calls /\ monitor_workers
    \/ UNCHANGED calls /\ reset_system

Next == NextOf(MaxTasks)

Spec == Init /\ [][Next]_vars

\* The lease scenario: the same, in a run of at most MaxLeased tasks.
NextLease == NextOf(MaxLeased)

SpecLease == Init /\ [][NextLease]_vars

\* The batch scenario: clients submit, workers poll and report, and no round of
\* the monitor falls in between.
NextBatch ==
    \/ nextId < MaxBatch /\ UNCHANGED calls /\ \E d \in ClientInputs : submit_task(d)
    \/ UNCHANGED calls /\ \E w \in WorkerIds : get_task(w)
    \/ UNCHANGED calls /\ \E id \in 1..MaxBatch, s \in WorkerStatuses, r \in ResultInputs :
                              update_task(id, s, r)
    \/ UNCHANGED calls /\ reset_system

SpecBatch == Init /\ [][NextBatch]_vars

\* The intake scenario: the same, with clients that send any JSON body.
NextIntake ==
    \/ nextId < MaxIntake /\ UNCHANGED calls /\ \E d \in SubmitInputs : submit_task(d)
    \/ UNCHANGED calls /\ \E w \in WorkerIds : get_task(w)
    \/ UNCHANGED calls /\ \E id \in 1..MaxIntake, s \in WorkerStatuses, r \in ResultInputs :
                              update_task(id, s, r)
    \/ UNCHANGED calls /\ reset_system

SpecIntake == Init /\ [][NextIntake]_vars

\* The requeue scenario: clients submit, workers register and poll, and the
\* monitor makes its rounds; no worker reports and no worker sends a heartbeat,
\* so every grant ends in a requeue.
NextRequeue ==
    \/ nextId < MaxRequeued /\ UNCHANGED calls /\ \E d \in ClientInputs : submit_task(d)
    \/ UNCHANGED calls /\ \E w \in WorkerIds : get_task(w)
    \/ UNCHANGED calls /\ \E w \in Registrants : register_worker(w)
    \/ clock < StartTime + MaxRounds * MonitorInterval /\ UNCHANGED calls /\ monitor_workers

SpecRequeue == Init /\ [][NextRequeue]_vars

\* The grant scenario: get_task is followed in two steps, its critical section
\* and its return, with the other handlers and the monitor in between.
NextGrant ==
    \/ nextId < MaxGranted /\ UNCHANGED calls /\ \E d \in ClientInputs : submit_task(d)
    \/ UNCHANGED calls /\ \E id \in 1..MaxGranted, s \in WorkerStatuses, r \in ResultInputs :
                              update_task(id, s, r)
    \/ UNCHANGED calls /\ \E w \in Registrants : register_worker(w)
    \/ UNCHANGED calls /\ \E w \in Registrants : heartbeat(w)
    \/ clock < StartTime + MaxRounds * MonitorInterval /\ UNCHANGED calls /\ monitor_workers
    \/ \E w \in WorkerIds : get_task_locked(w)
    \/ \E w \in WorkerIds : get_task_return(w)

SpecGrant == Init /\ [][NextGrant]_vars

\* The dashboard scenario: status() is followed read by read, with the other
\* handlers and the monitor in between.
NextStatus ==
    \/ nextId < MaxViewed /\ (\E d \in ClientInputs : submit_task(d)) /\ Observed
    \/ (\E w \in WorkerIds : get_task(w)) /\ Observed
    \/ (\E id \in 1..MaxViewed, s \in WorkerStatuses, r \in ResultInputs :
            update_task(id, s, r)) /\ Observed
    \/ (\E w \in Registrants : register_worker(w)) /\ Observed
    \/ clock < StartTime + MaxRounds * MonitorInterval /\ monitor_workers /\ Observed
    \/ reset_system /\ Observed
    \/ status_summary
    \/ status_avg_time
    \/ status_makespan
    \/ status_workers
    \/ status_return

SpecStatus == Init /\ [][NextStatus]_vars

\* The crash scenario: the master, clients that submit, workers that follow
\* worker.py (and register successfully) and may die at any point, and the
\* monitor, which makes round after round for ever.
NextCrash ==
    \/ nextId < MaxCrashed /\ UNCHANGED calls /\ \E d \in ClientInputs : submit_task(d)
    \/ \E w \in WorkerIds : worker_register(w)
    \/ \E w \in WorkerIds : worker_heartbeat(w)
    \/ \E w \in WorkerIds : worker_poll(w)
    \/ \E w \in WorkerIds, s \in WorkerStatuses, r \in ResultInputs : worker_report(w, s, r)
    \/ \E w \in WorkerIds : worker_crash(w)
    \/ monitor_round

SpecCrash == Init /\ [][NextCrash]_vars /\ WF_vars(monitor_round)

\* The report scenario: clients that submit any request body, and workers that
\* follow worker.py step by step: register, poll, run the task, report.
NextReport ==
    \/ nextId < MaxReported /\ UNCHANGED calls /\ \E d \in SubmitInputs : submit_task(d)
    \/ \E w \in WorkerIds : worker_register(w)
    \/ \E w \in WorkerIds : worker_poll(w)
    \/ \E w \in WorkerIds, o \in {"returned", "raised"} : worker_run(w, o)
    \/ \E w \in WorkerIds, r \in ResultInputs, d, a \in BOOLEAN :
          worker_report_done(w, r, d, a)
    \/ \E w \in WorkerIds, d \in BOOLEAN : worker_report_failed(w, d)

SpecReport == Init /\ [][NextReport]_vars

\* ------------------------------------------------------------------ claims
\* The four states of a task.
TaskStates == {"queued", "running", "done", "failed"}

\* C1: a task is never granted twice without a requeue in between.  get_task
\* records the grant in the task's worker field and only the monitor's requeue
\* clears it, so: every task get_task returns has no worker at that moment (it
\* is not running for another worker, and no earlier grant of it is standing).
C1_NoDoubleGrant ==
    [][\A w \in WorkerIds :
          (get_task(w) /\ task_queue # <<>>) =>
              LET t == tasks[Head(task_queue)]
              IN  /\ ~(t.status = "running" /\ t.worker \in WorkerIds \ {w})
                  /\ t.worker = NoWorker]_vars

\* C1 witness: the only task of the run is running on a worker after having
\* been granted before (the first grant set first_task_start): it was granted,
\* requeued by the monitor, and granted again.
C1_Witness ==
    /\ nextId = 1
    /\ 1 \in DOMAIN tasks
    /\ tasks[1].status = "running"
    /\ tasks[1].worker \in WorkerIds
    /\ first_task_start # NoTime
    /\ tasks[1].start_time > first_task_start

\* C2: when the queue holds only tasks as submitted (none of them was granted
\* and requeued), get_task returns the task that is first by (priority,
\* submission order) among the tasks in the queue: everything left in the queue
\* has a higher priority value, or the same and a later id.  So the get_task
\* calls that follow the submits return non-decreasing priorities, and equal
\* priorities in submission order.
C2_PriorityThenFifo ==
    [][\A w \in WorkerIds :
          ( /\ get_task(w)
            /\ task_queue # <<>>
            /\ \A k \in Range(task_queue) : tasks[k].start_time = NoTime ) =>
              LET id == Head(task_queue)
              IN  \A j \in Range(task_queue') :
                      \/ tasks[id].priority < tasks[j].priority
                      \/ tasks[id].priority = tasks[j].priority /\ id < j]_vars

\* C2 witness: three tasks submitted with priorities 50, 1, 1; the first
\* get_task has returned task 2, and tasks 3 and 1 follow in that order.
C2_Witness ==
    /\ DOMAIN tasks = {1, 2, 3}
    /\ tasks[1].priority = DefaultPriority
    /\ tasks[2].priority = 1
    /\ tasks[3].priority = 1
    /\ tasks[2].status = "running"
    /\ task_queue = <<3, 1>>

\* C3: every stored task has a status that is one of queued, running, done,
\* failed, whatever status update_task is sent.
C3_StatusIsAState == \A id \in DOMAIN tasks : tasks[id].status \in TaskStates

\* C4: an update_task report for a task that is not running (queued, done,
\* failed) leaves the task's status and result as they were.
C4_ReportOnlyWhileRunning ==
    [][\A id \in DOMAIN tasks, s \in StatusInputs, r \in ResultInputs :
          (update_task(id, s, r) /\ tasks[id].status # "running") =>
              /\ tasks'[id].status = tasks[id].status
              /\ tasks'[id].result = tasks[id].result]_vars

\* C5: once a task is done or failed, no step that keeps the task (any step
\* but reset) changes its status.
C5_TerminalIsFinal ==
    [][\A id \in DOMAIN tasks \cap DOMAIN tasks' :
          tasks[id].status \in {"done", "failed"} =>
              tasks'[id].status = tasks[id].status]_vars

\* The master has had no register and no heartbeat request from w in the
\* HeartbeatTimeout before now: a registered worker by its last_seen; a worker
\* that is not a registrant has sent none since the start.
SilentAt(w, now) ==
    IF IsRegistered(w) THEN now - LastSeen(w) > HeartbeatTimeout
    ELSE w \notin Registrants /\ now - StartTime > HeartbeatTimeout

\* C6: a monitor round that finds a worker silent for more than the heartbeat
\* timeout puts every task running on that worker back to queued with no
\* worker and in the queue, and the worker is not in the registry afterwards.
C6_SilentWorkerRequeued ==
    [][monitor_workers =>
          \A w \in WorkerIds :
              SilentAt(w, clock') =>
                  /\ \A id \in DOMAIN tasks :
                        (tasks[id].worker = w /\ tasks[id].status = "running") =>
                            /\ tasks'[id].status = "queued"
                            /\ tasks'[id].worker = NoWorker
                            /\ id \in Range(task_queue')
                  /\ \A i \in DOMAIN workers' : workers'[i].id # w]_vars

\* C7: a monitor round that finds a task running for longer than the lease
\* timeout on a worker that is registered and not silent puts the task back to
\* queued, in the queue exactly once.
C7_StuckLeaseRequeued ==
    [][monitor_workers =>
          \A id \in DOMAIN tasks :
              ( /\ tasks[id].status = "running"
                /\ clock' - tasks[id].start_time > LeaseTimeout
                /\ IsRegistered(tasks[id].worker)
                /\ clock' - LastSeen(tasks[id].worker) <= HeartbeatTimeout ) =>
                  /\ tasks'[id].status = "queued"
                  /\ Cardinality({k \in DOMAIN task_queue' : task_queue'[k] = id}) = 1]_vars

\* C8: the queue is always ordered by priority, lower value first.
C8_QueueSortedByPriority ==
    \A i, j \in DOMAIN task_queue :
        i < j => tasks[task_queue[i]].priority <= tasks[task_queue[j]].priority

\* C9: after reset the summary counts are all zero and no worker is known.
C9_ResetClearsAll ==
    [][reset_system =>
          /\ get_summary' = [total |-> 0, queued |-> 0, running |-> 0, done |-> 0,
                             failed |-> 0]
          /\ workers' = <<>>]_vars

\* C10: a heartbeat from a worker that is not in the registry leaves it in the
\* registry, last seen at the time of the heartbeat.
C10_HeartbeatRegisters ==
    \A w \in WorkerIds :
        ~IsRegistered(w) =>
            \E i \in DOMAIN AfterHeartbeat(w) :
                AfterHeartbeat(w)[i] = [id |-> w, last_seen |-> clock]

\* C11: a get_task call from a registered worker, whether it returns a task or
\* none, leaves that worker's last_seen at the time of the call.
C11_GetTaskRefreshes ==
    [][\A w \in WorkerIds :
          (get_task(w) /\ IsRegistered(w)) => LastSeen(w)' = clock]_vars

\* C13: a submit request without a type or without a payload is rejected:
\* tasks and task_queue are left as they were.
C13_MalformedSubmitRejected ==
    [][\A d \in SubmitInputs :
          (submit_task(d) /\ (d.type = <<>> \/ d.payload = <<>>)) =>
              UNCHANGED <<tasks, task_queue>>]_vars

\* C14: in the state a submit on an empty queue leaves (the queue holds the
\* new task alone, the task is as submitted), get_task(w) grants that task: it
\* is running, its worker is w, and the queue is empty again.
C14_SubmitThenGet ==
    [][\A w \in WorkerIds :
          ( /\ task_queue = <<nextId>>
            /\ \E d \in SubmitInputs : tasks[nextId] = NewTask(d)
            /\ get_task(w) ) =>
              /\ tasks'[nextId].status = "running"
              /\ tasks'[nextId].worker = w
              /\ task_queue' = <<>>]_vars

\* C14 witness: the last task submitted is running on w2 since this instant,
\* the queue is empty and no other task is stored: submit, then get_task(w2).
C14_Witness ==
    /\ nextId >= 1
    /\ DOMAIN tasks = {nextId}
    /\ task_queue = <<>>
    /\ tasks[nextId].status = "running"
    /\ tasks[nextId].worker = "w2"
    /\ tasks[nextId].result = NoResult

\* C16: every task that is done or failed has its end_time set.
C16_TerminalHasEndTime ==
    \A id \in DOMAIN tasks :
        tasks[id].status \in {"done", "failed"} => tasks[id].end_time # NoTime

\* C17: update_task with an id that is not in the store (not submitted yet, or
\* removed by reset) leaves tasks and last_task_end as they are, and the step
\* leaves task_queue, workers and first_task_start as they are too.
C17_UnknownIdIgnored ==
    /\ [](\A id \in (1..(nextId + 1)) \ DOMAIN tasks,
             s \in StatusInputs, r \in ResultInputs :
               /\ AfterUpdate(id, s, r) = tasks
               /\ EndAfterUpdate(id, s) = last_task_end)
    /\ [][\A id \in (1..(nextId + 1)) \ DOMAIN tasks,
             s \in StatusInputs, r \in ResultInputs :
               update_task(id, s, r) =>
                   UNCHANGED <<tasks, task_queue, workers, first_task_start,
                               last_task_end>>]_vars

\* C17 witness: task 1 was removed by reset, and the store holds a task that
\* is done (last_task_end is set) and a task that is queued.
C17_Witness ==
    /\ nextId >= 1
    /\ 1 \notin DOMAIN tasks
    /\ last_task_end # NoTime
    /\ first_task_start # NoTime
    /\ task_queue # <<>>
    /\ \E id \in DOMAIN tasks : tasks[id].status = "done"

\* The number of times id is in the queue q.
Count(q, id) == Cardinality({k \in DOMAIN q : q[k] = id})

\* C19: a monitor round leaves in the registry, as it is, every worker whose
\* last_seen is at most HeartbeatTimeout before the round's `now`, leaves every
\* task running on such a worker as it is and adds it to no queue, and leaves
\* the set of stored task ids as it is.
C19_LiveWorkerUntouched ==
    [][monitor_workers =>
          /\ DOMAIN tasks' = DOMAIN tasks
          /\ \A i \in DOMAIN workers :
                clock' - workers[i].last_seen <= HeartbeatTimeout =>
                    /\ \E k \in DOMAIN workers' : workers'[k] = workers[i]
                    /\ \A id \in DOMAIN tasks :
                          ( /\ tasks[id].status = "running"
                            /\ tasks[id].worker = workers[i].id ) =>
                              /\ tasks'[id] = tasks[id]
                              /\ Count(task_queue', id) = Count(task_queue, id)]_vars

\* C19 witness: a round has just passed (the clock moved) over a worker last
\* seen exactly HeartbeatTimeout before it; the worker is registered and the
\* task it was granted before the round is running on it.
C19_Witness ==
    \E i \in DOMAIN workers, id \in DOMAIN tasks :
        /\ workers[i].last_seen = clock - HeartbeatTimeout
        /\ tasks[id].status = "running"
        /\ tasks[id].worker = workers[i].id
        /\ tasks[id].start_time < clock

\* a is in the queue q at a place before b.
Before(q, a, b) == \E i, j \in DOMAIN q : i < j /\ q[i] = a /\ q[j] = b

\* C15: a task that enters the queue, requeued by the monitor or submitted,
\* enters it behind every task of its own priority that is in the queue, no
\* step changes the order of two tasks of one priority that stay in the queue,
\* and get_task serves the task at the head.  So a requeued task is served
\* after the equal-priority tasks that were in the queue at the requeue and
\* before the equal-priority tasks submitted after it.
C15_RequeuedIsNewlyArrived ==
    [][/\ \A a, b \in Range(task_queue') :
             ( /\ a # b
               /\ tasks'[a].priority = tasks'[b].priority
               /\ Before(task_queue', a, b) ) =>
                 \/ b \notin Range(task_queue)
                 \/ Before(task_queue, a, b) /\ ~Before(task_queue, b, a)
       /\ \A w \in WorkerIds :
             (get_task(w) /\ task_queue # <<>>) =>
                 /\ tasks'[Head(task_queue)].status = "running"
                 /\ \A j \in Range(task_queue') : Before(task_queue, Head(task_queue), j)]_vars

\* C15 witness: three tasks of one priority; task 1 was granted, and requeued
\* while task 2 was in the queue (it is behind task 2), and task 3 was
\* submitted after the requeue (it is behind task 1); 2 and 3 were never granted.
C15_Witness ==
    /\ DOMAIN tasks = {1, 2, 3}
    /\ tasks[1].priority = tasks[2].priority
    /\ tasks[2].priority = tasks[3].priority
    /\ task_queue = <<2, 1, 3>>
    /\ tasks[1].start_time # NoTime
    /\ tasks[2].start_time = NoTime
    /\ tasks[3].start_time = NoTime

\* C20: the task a get_task(w) call returns has status running and worker w,
\* whatever ran between the call's critical section and its return.
C20_ResponseIsSnapshot ==
    [][\A w \in WorkerIds :
          get_task_return(w) =>
              /\ HeldTask(w).status = "running"
              /\ HeldTask(w).worker = w]_vars

\* C12: what a status() call shows (counts by state, average completion time,
\* makespan, worker count) is the snapshot of one state the master was in
\* between the call's first read and its last: some such state matches
\* everything the call has read.
C12_StatusNotTorn ==
    status_call.pc = "done" => status_call.matching # {}

\* C18: with workers that follow worker.py and a monitor that keeps making
\* its rounds, a task that is running on a worker that has crashed does not
\* stay so for ever: it is eventually taken from that worker (requeued).
C18_CrashedWorkersTaskRequeued ==
    \A id \in 1..MaxCrashed, w \in WorkerIds :
        ( /\ id \in DOMAIN tasks
          /\ tasks[id].status = "running"
          /\ tasks[id].worker = w
          /\ worker_proc[w].pc = "crashed" )
        ~> ~( /\ id \in DOMAIN tasks
              /\ tasks[id].status = "running"
              /\ tasks[id].worker = w )

\* C21: no task is in task_queue more than once.
C21_NoDuplicateInQueue ==
    \A i, j \in DOMAIN task_queue : task_queue[i] = task_queue[j] => i = j

\* C21 witness: the task was granted and the monitor has put it back: it is
\* queued again, with its start_time, and in the queue once.
C21_Witness ==
    /\ task_queue = <<1>>
    /\ tasks[1].status = "queued"
    /\ tasks[1].start_time # NoTime
    /\ tasks[1].start_time < clock

\* C22: every stored task that is queued is in task_queue, and every entry of
\* task_queue is a stored task.
C22_QueuedTaskNotLost ==
    /\ \A id \in DOMAIN tasks :
          tasks[id].status = "queued" => id \in Range(task_queue)
    /\ Range(task_queue) \subseteq DOMAIN tasks

\* C22 witness: the task was reported while it was queued (it has a result),
\* granted, and put back by the monitor, which removed its worker from the
\* registry: it is queued and it is what the queue holds.
C22_Witness ==
    /\ 1 \in DOMAIN tasks
    /\ tasks[1].status = "queued"
    /\ tasks[1].worker = NoWorker
    /\ tasks[1].result # NoResult
    /\ tasks[1].start_time # NoTime
    /\ workers = <<>>
    /\ 1 \in Range(task_queue)

\* C23: when no task is queued or running, a task is done and both timers are
\* set, last_task_end is not before first_task_start (the makespan status()
\* shows then, their difference, is not negative).
C23_MakespanNotNegative ==
    ( /\ get_summary.queued = 0
      /\ get_summary.running = 0
      /\ get_summary.done > 0
      /\ first_task_start # NoTime
      /\ last_task_end # NoTime ) =>
        last_task_end >= first_task_start

\* C24: a worker that has finished with a task it obtained has sent exactly one
\* update_task report for it: done when run_task returned, failed when it raised;
\* a computation that succeeded is never reported as failed.
C24_OneTruthfulReport ==
    \A w \in WorkerIds :
        (worker_proc[w].pc = "poll" /\ worker_proc[w].task # NoTask) =>
            worker_proc[w].reports =
                IF worker_proc[w].ran = "returned" THEN <<"done">> ELSE <<"failed">>

====
